---------------------------- MODULE Spec2Model ----------------------------
(***************************************************************************)
(* Day-ahead price pipeline of EuropePowerMarket_App:                      *)
(*   services/data_fetcher.py    safe_get, delivery-date resolver,         *)
(*                               delivery-window filter, fetch loop        *)
(*   utils/timezone_helper.py    market-timezone delivery-date resolver    *)
(*   services/data_processor.py  point expander, XML -> raw CSV normalizer *)
(*                                                                         *)
(* Dates are day numbers (day 0 = 1 January), instants are hours since     *)
(* day 0 00:00 UTC.  A value that may be a Python exception is a record    *)
(* [ok |-> BOOLEAN, ...].                                                  *)
(***************************************************************************)
EXTENDS Integers, Sequences, FiniteSets, TLC

VARIABLES
    \* ---- fetch_da_price_xml_bytes (data_fetcher.py) ----
    start_date, end_date, country_code, token,   \* the call's arguments
    pc,                \* position of the fetch call
    current_start, current_end, offset, page,    \* loop variables
    seen_mrids,        \* Set[str]
    root,              \* children of the output Publication_MarketDocument
    calls,             \* number of safe_get calls issued so far (history)
    ts_left,           \* TimeSeries of the current page not merged yet
    cur_ts,            \* loop variable ts: the TimeSeries merged last
    new_ts_found,      \* loop flag
    seg_keys,          \* (mRID, period start) pairs received in this segment (history)
    error,             \* exception that ended the fetch, or None
    \* ---- safe_get (data_fetcher.py) ----
    g_pc,              \* position of the safe_get call
    max_retries,       \* its max_retries argument
    attempt,           \* loop variable of safe_get
    tried,             \* number of requests.get of this call (history)
    slept,             \* number of time.sleep(sleep_seconds) of this call (history)
    resp,              \* what safe_get returned
    g_exc,             \* exception of the latest failed attempt
    \* ---- _expand_points_with_fill (data_processor.py), called directly ----
    e_pc,              \* position of the call
    e_points,          \* argument points: list of <<position, price>>
    e_expected,        \* argument expected_points
    e_out,             \* what the call returned or raised
    \* ---- parse_da_xml_to_raw_csv_bytes (data_processor.py) ----
    n_pc,              \* position of the call
    n_left,            \* TimeSeries of the document not visited yet
    n_ts,              \* loop variable ts: the TimeSeries visited last
    seen_delivery_days,
    rows,              \* list of [date, mtu, price]
    csv,               \* the returned table
    n_error,           \* exception that ended the call, or None
    first_for,         \* per date, the first TimeSeries that passed the
                       \* classification filter with that date (history)
    \* ---- convert_raw_mtu_csv_to_hourly_csv_bytes (data_processor.py) ----
    h_pc,              \* position of the call
    h_raw,             \* the raw table given to the call
    h_df,              \* df after sort_values
    h_dates,           \* groups of df.groupby("Date") not visited yet
    all_hourly_rows,   \* list of [date, hour, num, den]
    h_error,           \* exception that ended the call, or None
    \* ---- _resolution_to_expected_points (data_processor.py), called directly ----
    r_pc,              \* position of the call
    r_text,            \* argument resolution
    r_out              \* what the call returned or raised

fetchVars == <<start_date, end_date, country_code, token, pc, current_start,
               current_end, offset, page, seen_mrids, root, calls, error,
               ts_left, cur_ts, new_ts_found, seg_keys>>
getVars   == <<g_pc, max_retries, attempt, tried, slept, resp, g_exc>>
expandVars == <<e_pc, e_points, e_expected, e_out>>
normVars   == <<n_pc, n_left, n_ts, seen_delivery_days, rows, csv, n_error,
                first_for>>
hourlyVars == <<h_pc, h_raw, h_df, h_dates, all_hourly_rows, h_error>>
resVars    == <<r_pc, r_text, r_out>>
vars      == <<fetchVars, getVars, expandVars, normVars, hourlyVars, resVars>>

nonFetchVars  == <<getVars, expandVars, normVars, hourlyVars, resVars>>
nonGetVars    == <<fetchVars, expandVars, normVars, hourlyVars, resVars>>
nonExpandVars == <<fetchVars, getVars, normVars, hourlyVars, resVars>>
nonNormVars   == <<fetchVars, getVars, expandVars, hourlyVars, resVars>>
nonHourlyVars == <<fetchVars, getVars, expandVars, normVars, resVars>>
nonResVars    == <<fetchVars, getVars, expandVars, normVars, hourlyVars>>

None == "<None>"

-----------------------------------------------------------------------------
(* config/settings.py *)

MAX_DAYS_PER_REQUEST_DA == 100

\* keys of ENTSOE_EIC_BY_COUNTRY
ENTSOE_EIC_BY_COUNTRY ==
    {"ES", "PT", "NL", "FR", "BE", "GB", "CZ", "CH", "IT-North",
     "IT-Centre-North", "IT-Centre-South", "IT-South", "IT-Calabria",
     "IT-Sicily", "IT-Sardinia"}

DA_MARKET_TIMEZONE == "Europe/Brussels"

DA_SUPPORTED_RESOLUTION_MINUTES == {60, 30, 15}

DA_SKIP_UNSUPPORTED_MTU_DAYS == TRUE

-----------------------------------------------------------------------------
(* Bounds of the model *)

MaxPageLen    == 2      \* series per page returned by the endpoint
MaxSpanBlocks == 1      \* requested ranges reach past this many full segments
MaxRetriesArg == 5      \* largest max_retries given to a direct safe_get call
MaxPoints     == 3      \* points given to a direct _expand_points_with_fill call
MaxPos        == 4      \* largest position of such a point
MaxDocLen     == 3      \* TimeSeries in a document given to the normalizer
MaxExpected   == 6      \* largest expected_points of such a call

-----------------------------------------------------------------------------
(* Time zones (zoneinfo).  EU summer time: all zones switch at 01:00 UTC.  *)

DstBegin == 89 * 24 + 1      \* last Sunday of March, 01:00 UTC
DstEnd   == 299 * 24 + 1     \* last Sunday of October, 01:00 UTC

\* ZoneInfo(tz).utcoffset at a UTC instant, in hours
UtcOffset(tz, instant) ==
    IF tz = "UTC" THEN 0
    ELSE (IF tz \in {"Europe/London", "Europe/Lisbon"} THEN 0 ELSE 1)
         + (IF instant >= DstBegin /\ instant < DstEnd THEN 1 ELSE 0)

\* datetime.astimezone(tz).date()
LocalDate(instant, tz) == (instant + UtcOffset(tz, instant)) \div 24

TZ_BY_COUNTRY ==
    ( "FR" :> "Europe/Paris" @@ "BE" :> "Europe/Brussels"
   @@ "NL" :> "Europe/Amsterdam" @@ "ES" :> "Europe/Madrid"
   @@ "PT" :> "Europe/Lisbon" @@ "IT-North" :> "Europe/Rome"
   @@ "IT-South" :> "Europe/Rome" @@ "GB" :> "Europe/London"
   @@ "CZ" :> "Europe/Prague" @@ "CH" :> "Europe/Zurich" )

_get_timezone_for_country(c) ==
    IF c \in DOMAIN TZ_BY_COUNTRY THEN TZ_BY_COUNTRY[c] ELSE "UTC"

-----------------------------------------------------------------------------
(* Text of Period/timeInterval/start.                                      *)
(*   kind "none"     no such element under the TimeSeries                  *)
(*   kind "garbage"  text that datetime.fromisoformat rejects              *)
(*   kind "utc"      "<day>T<hour>:00Z"                                    *)

StartNone    == [kind |-> "none", day |-> 0, hour |-> 0]
StartGarbage == [kind |-> "garbage", day |-> 0, hour |-> 0]
StartUtc(d, h) == [kind |-> "utc", day |-> d, hour |-> h]

\* _parse_utc_datetime: strip the "Z", read the wall time as UTC
_parse_utc_datetime(s) ==
    IF s.kind = "utc" THEN [ok |-> TRUE, instant |-> s.day * 24 + s.hour]
    ELSE [ok |-> FALSE, instant |-> 0]

\* The filter's resolver: local date in the zone of the country
get_delivery_date_from_timeseries(ts, c) ==
    IF ts.start.kind = "none" THEN [ok |-> FALSE, date |-> 0]
    ELSE LET utc_start == _parse_utc_datetime(ts.start) IN
         IF ~utc_start.ok THEN [ok |-> FALSE, date |-> 0]
         ELSE [ok |-> TRUE,
               date |-> LocalDate(utc_start.instant, _get_timezone_for_country(c))]

\* The normalizer's resolver: date in DA_MARKET_TIMEZONE
get_da_delivery_date_from_timeseries(ts) ==
    IF ts.start.kind = "none" THEN [ok |-> FALSE, date |-> 0]
    ELSE IF ts.start.kind # "utc" THEN [ok |-> FALSE, date |-> 0]
    ELSE [ok |-> TRUE,
          date |-> LocalDate(ts.start.day * 24 + ts.start.hour, DA_MARKET_TIMEZONE)]

-----------------------------------------------------------------------------------------------------------------------------------------------------
(* The remote endpoint *)

\* start texts the endpoint sends: day 0 and day 100 lie in winter and summer
StartTexts == {StartGarbage, StartUtc(0, 23), StartUtc(100, 22)}

\* text of a TimeSeries' mRID child: None (no element, or no text) or a string
Mrids == {"A", "B"}

RemoteSeries == [mrid : Mrids, start : StartTexts]
                \cup [mrid : {None}, start : {StartUtc(0, 23)}]
NoSeries == [mrid |-> None, start |-> StartNone]

RECURSIVE SeqsUpTo(_, _)
SeqsUpTo(S, n) ==
    IF n = 0 THEN {<<>>}
    ELSE LET shorter == SeqsUpTo(S, n - 1) IN
         shorter \cup {Append(q, x) : q \in {r \in shorter : Len(r) = n - 1}, x \in S}

\* a response body: unparseable XML, or a document with these TimeSeries
\* with len TimeSeries elements
NoResp    == [kind |-> "none", len |-> 0]
Malformed == [kind |-> "malformed", len |-> 0]
Pages == {[kind |-> "xml", len |-> n] : n \in 0..MaxPageLen}
Bodies == Pages \cup {Malformed}

-----------------------------------------------------------------------------
(* safe_get, statement by statement *)

RequestExceptions == {"Timeout", "ConnectionError", "HTTPError"}

\* data_fetcher.py:45  range(1, max_retries + 1): an attempt is left?
HasAttempt(att, n) == att <= n

\* variant: the last failure is retried too (attempt <= max_retries)
RetryAfterLast(att, n) == att <= n

\* data_fetcher.py:51  retry after this failure?
RetryAfter(att, n) == att < n

\* a direct call safe_get(url, params, max_retries = n)
SafeGetCall ==
    /\ pc = "direct"
    /\ g_pc = "idle"
    /\ \E n \in 0..MaxRetriesArg :
          /\ max_retries' = n
          /\ attempt' = 1
          /\ g_pc' = IF HasAttempt(1, n) THEN "try" ELSE "returned"
    /\ tried' = 0
    /\ slept' = 0
    /\ resp' = NoResp
    /\ g_exc' = None
    /\ UNCHANGED nonGetVars

\* data_fetcher.py:47-49  requests.get and raise_for_status succeed
SafeGetOk ==
    /\ g_pc = "try"
    /\ \E body \in Bodies : resp' = body
    /\ tried' = tried + 1
    /\ g_pc' = "returned"
    /\ UNCHANGED <<max_retries, attempt, slept, g_exc>>
    /\ UNCHANGED nonGetVars

\* data_fetcher.py:47-55  the attempt raises a RequestException
SafeGetFail ==
    /\ g_pc = "try"
    /\ \E e \in RequestExceptions : g_exc' = e
    /\ tried' = tried + 1
    /\ g_pc' = IF RetryAfter(attempt, max_retries) THEN "sleep" ELSE "raised"
    /\ UNCHANGED <<max_retries, attempt, slept, resp>>
    /\ UNCHANGED nonGetVars

\* data_fetcher.py:53, 45  time.sleep(sleep_seconds), then the next iteration
SafeGetSleep ==
    /\ g_pc = "sleep"
    /\ slept' = slept + 1
    /\ attempt' = attempt + 1
    /\ g_pc' = IF HasAttempt(attempt + 1, max_retries) THEN "try" ELSE "returned"
    /\ UNCHANGED <<max_retries, tried, resp, g_exc>>
    /\ UNCHANGED nonGetVars

\* Outcomes of a whole call safe_get(max_retries = n), from iteration att on
RECURSIVE safe_get(_, _)
safe_get(att, n) ==
    IF ~HasAttempt(att, n) THEN {[kind |-> "return", resp |-> NoResp, exc |-> None]}
    ELSE {[kind |-> "return", resp |-> b, exc |-> None] : b \in Bodies}
         \cup (IF RetryAfter(att, n) THEN safe_get(att + 1, n)
               ELSE {[kind |-> "raise", resp |-> NoResp, exc |-> e] :
                        e \in RequestExceptions})

-----------------------------------------------------------------------------
(* fetch_da_price_xml_bytes *)

DefaultMaxRetries == 5

Min(a, b) == IF a <= b THEN a ELSE b

\* variant: a segment reaches one day further
SegmentEndLong(cs, ed) == Min(cs + MAX_DAYS_PER_REQUEST_DA, ed)

\* variant: the offset is not advanced
NextOffsetSame(o) == o

\* data_fetcher.py:244
NextOffset(o) == o + 100

\* data_fetcher.py:188-191
SegmentEnd(cs, ed) == Min(cs + (MAX_DAYS_PER_REQUEST_DA - 1), ed)

\* variant: every TimeSeries counts as new for the page loop
AppendIfNewFoundAlways(acc, ts) ==
    IF ts.mrid # None /\ ts.mrid \notin acc.seen
    THEN [seen |-> acc.seen \cup {ts.mrid},
          root |-> Append(acc.root, ts),
          found |-> TRUE]
    ELSE [acc EXCEPT !.found = TRUE]

\* variant: the seen set is not consulted
AppendIfNewUnchecked(acc, ts) ==
    IF ts.mrid # None
    THEN [seen |-> acc.seen \cup {ts.mrid},
          root |-> Append(acc.root, ts),
          found |-> TRUE]
    ELSE acc

\* data_fetcher.py:232-238  one TimeSeries of the page
AppendIfNew(acc, ts) ==
    IF ts.mrid # None /\ ts.mrid \notin acc.seen
    THEN [seen |-> acc.seen \cup {ts.mrid},
          root |-> Append(acc.root, ts),
          found |-> TRUE]
    ELSE acc

\* variant: the token check is missing
RequestErrorNoTokenCheck(sd, ed, c, tok) ==
    IF sd > ed THEN "ValueError: start_date"
    ELSE IF c \notin ENTSOE_EIC_BY_COUNTRY THEN "ValueError: country_code"
    ELSE None

\* data_fetcher.py:168-175
RequestError(sd, ed, c, tok) ==
    IF sd > ed THEN "ValueError: start_date"
    ELSE IF c \notin ENTSOE_EIC_BY_COUNTRY THEN "ValueError: country_code"
    ELSE IF tok = "" THEN "ValueError: token"
    ELSE None

\* data_fetcher.py:168-209  validation, and entry of the first segment
FetchBegin ==
    /\ pc = "start"
    /\ LET e == RequestError(start_date, end_date, country_code, token) IN
       IF e # None
       THEN /\ pc' = "failed"
            /\ error' = e
            /\ UNCHANGED <<current_start, current_end, offset, page>>
       ELSE \* start_date <= end_date: the while loop is entered
            /\ current_start' = start_date
            /\ current_end' = SegmentEnd(start_date, end_date)
            /\ offset' = 0
            /\ page' = 1
            /\ pc' = "call"
            /\ error' = None
    /\ UNCHANGED <<start_date, end_date, country_code, token, seen_mrids,
                   root, calls, ts_left, cur_ts, new_ts_found, seg_keys>>
    /\ UNCHANGED nonFetchVars

\* data_fetcher.py:248, 187-209  leave the page loop: next segment, or the filter
LeaveSegment ==
    LET next_start == current_end + 1 IN
    /\ current_start' = next_start
    /\ seg_keys' = {}
    /\ IF next_start <= end_date
       THEN /\ current_end' = SegmentEnd(next_start, end_date)
            /\ offset' = 0
            /\ page' = 1
            /\ pc' = "call"
       ELSE /\ pc' = "filter"
            /\ UNCHANGED <<current_end, offset, page>>

\* data_fetcher.py:212-228  request one page, parse it, count its TimeSeries.
\* The TimeSeries of the page are drawn when the loop reaches them.
FetchCall ==
    /\ pc = "call"
    /\ calls' = calls + 1
    /\ \E out \in safe_get(1, DefaultMaxRetries) :
          IF out.kind = "raise"
          THEN /\ pc' = "failed"
               /\ error' = out.exc
               /\ UNCHANGED <<ts_left, new_ts_found, current_start,
                              current_end, offset, page, seg_keys>>
          ELSE IF out.resp.kind # "xml"
          THEN /\ pc' = "failed"
               /\ error' = "RuntimeError"
               /\ UNCHANGED <<ts_left, new_ts_found, current_start,
                              current_end, offset, page, seg_keys>>
          ELSE IF out.resp.len = 0
          THEN /\ LeaveSegment
               /\ UNCHANGED <<ts_left, new_ts_found, error>>
          ELSE /\ pc' = "merge"
               /\ ts_left' = out.resp.len
               /\ new_ts_found' = FALSE
               /\ UNCHANGED <<error, current_start, current_end, offset,
                              page, seg_keys>>
    /\ UNCHANGED <<start_date, end_date, country_code, token, seen_mrids,
                   root, cur_ts>>
    /\ UNCHANGED nonFetchVars

\* data_fetcher.py:231-248  one TimeSeries of the page; after the last one,
\* the next page, the next segment or the filter
FetchMerge ==
    /\ pc = "merge"
    /\ \E s \in RemoteSeries :
          LET m == AppendIfNew([seen |-> seen_mrids, root |-> root,
                               found |-> new_ts_found], s) IN
          /\ cur_ts' = s
          /\ seen_mrids' = m.seen
          /\ root' = m.root
          /\ new_ts_found' = m.found
          /\ ts_left' = ts_left - 1
          /\ IF ts_left > 1
             THEN /\ seg_keys' = seg_keys \cup {<<s.mrid, s.start>>}
                  /\ UNCHANGED <<pc, current_start, current_end, offset, page>>
             ELSE IF m.found
             THEN /\ seg_keys' = seg_keys \cup {<<s.mrid, s.start>>}
                  /\ offset' = NextOffset(offset)
                  /\ page' = page + 1
                  /\ pc' = "call"
                  /\ UNCHANGED <<current_start, current_end>>
             ELSE LeaveSegment
    /\ UNCHANGED <<start_date, end_date, country_code, token, calls, error>>
    /\ UNCHANGED nonFetchVars

\* data_fetcher.py:132-142  does the filter leave this TimeSeries in root?
FilterKeeps(ts, c, sd, ed) ==
    LET delivery_day == get_delivery_date_from_timeseries(ts, c) IN
    IF ~delivery_day.ok THEN TRUE      \* except Exception: ... continue
    ELSE sd <= delivery_day.date /\ delivery_day.date <= ed

_filter_timeseries_by_delivery_window(r, c, sd, ed) ==
    SelectSeq(r, LAMBDA ts : FilterKeeps(ts, c, sd, ed))

\* data_fetcher.py:251-266  filter, serialize, return
FetchFilter ==
    /\ pc = "filter"
    /\ root' = _filter_timeseries_by_delivery_window(root, country_code,
                                                     start_date, end_date)
    /\ pc' = "done"
    /\ UNCHANGED <<start_date, end_date, country_code, token, current_start,
                   current_end, offset, page, seen_mrids, calls, error,
                   ts_left, cur_ts, new_ts_found, seg_keys>>
    /\ UNCHANGED nonFetchVars

-----------------------------------------------------------------------------
(* _expand_points_with_fill *)

\* a point is <<position, price>>
Pos(pt)   == pt[1]
Price(pt) == pt[2]

\* sorted(..., key = position) is stable: x goes after the points whose
\* position is not greater
RECURSIVE InsertByPos(_, _)
InsertByPos(sorted, x) ==
    IF sorted = <<>> THEN <<x>>
    ELSE IF Pos(x) < Pos(Head(sorted)) THEN <<x>> \o sorted
    ELSE <<Head(sorted)>> \o InsertByPos(Tail(sorted), x)

RECURSIVE SortByPos(_)
SortByPos(points) ==
    IF points = <<>> THEN <<>>
    ELSE InsertByPos(SortByPos(SubSeq(points, 1, Len(points) - 1)),
                     points[Len(points)])

\* variant: nothing is filled in
FillRangeNone(from, to, prev_price) == <<>>

\* data_processor.py:97-98, 105-106  (missing_pos, prev_price) for
\* missing_pos in range(from, to)
FillRange(from, to, prev_price) ==
    IF to <= from THEN <<>>
    ELSE [i \in 1..(to - from) |-> <<from + i - 1, prev_price>>]

\* variant: a repeated position is let through
NotAfterStrict(pos, prev_pos) == pos < prev_pos

\* data_processor.py:92  if pos <= prev_pos
NotAfter(pos, prev_pos) == pos <= prev_pos

\* data_processor.py:91-101  the loop over points[1:]
RECURSIVE ExpandLoop(_, _, _)
ExpandLoop(rest, prev, expanded) ==
    IF rest = <<>> THEN [ok |-> TRUE, err |-> None, prev |-> prev,
                         points |-> expanded]
    ELSE LET pt == Head(rest) IN
         IF NotAfter(Pos(pt), Pos(prev))
         THEN [ok |-> FALSE, err |-> "ValueError: position", prev |-> prev,
               points |-> <<>>]
         ELSE ExpandLoop(Tail(rest), pt,
                         expanded \o FillRange(Pos(prev) + 1, Pos(pt), Price(prev))
                                  \o <<pt>>)

\* data_processor.py:81  the order in which the points are walked
WalkOrder(points) == SortByPos(points)

\* variant: the tail stops one position short (range(prev_pos + 1, expected_points))
TailFillShort(prev, expected_points) ==
    IF Pos(prev) < expected_points
    THEN FillRange(Pos(prev) + 1, expected_points, Price(prev))
    ELSE <<>>

\* data_processor.py:103-106  the tail after the last supplied point
TailFill(prev, expected_points) ==
    IF Pos(prev) < expected_points
    THEN FillRange(Pos(prev) + 1, expected_points + 1, Price(prev))
    ELSE <<>>

\* variant: only a first position above 1 is refused
BadFirstPositionAbove(prev_pos) == prev_pos > 1

\* data_processor.py:85  the first position (after sorting) must be 1
BadFirstPosition(prev_pos) == prev_pos # 1

\* data_processor.py:64-114
_expand_points_with_fill(points, expected_points) ==
    IF points = <<>> THEN [ok |-> TRUE, err |-> None, points |-> <<>>]
    ELSE LET sorted == WalkOrder(points) IN
         IF BadFirstPosition(Pos(sorted[1]))
         THEN [ok |-> FALSE, err |-> "ValueError: first position",
               points |-> <<>>]
         ELSE LET r == ExpandLoop(Tail(sorted), sorted[1], <<sorted[1]>>) IN
              IF ~r.ok THEN [ok |-> FALSE, err |-> r.err, points |-> <<>>]
              ELSE [ok |-> TRUE, err |-> None,
                    points |-> r.points \o TailFill(r.prev, expected_points)]

NoOut == [ok |-> FALSE, err |-> None, points |-> <<>>]

\* a direct call _expand_points_with_fill(e_points, e_expected)
ExpandCall ==
    /\ e_pc = "ready"
    /\ e_out' = _expand_points_with_fill(e_points, e_expected)
    /\ e_pc' = IF e_out'.ok THEN "returned" ELSE "raised"
    /\ UNCHANGED <<e_points, e_expected>>
    /\ UNCHANGED nonExpandVars

-----------------------------------------------------------------------------
(* _resolution_to_expected_points.  A text is a sequence of characters.    *)

Digits == ("0" :> 0 @@ "1" :> 1 @@ "2" :> 2 @@ "3" :> 3 @@ "4" :> 4
        @@ "5" :> 5 @@ "6" :> 6 @@ "7" :> 7 @@ "8" :> 8 @@ "9" :> 9)

UpperOf == ("p" :> "P" @@ "t" :> "T" @@ "m" :> "M" @@ "d" :> "D"
            @@ "h" :> "H" @@ "x" :> "X")

\* str.upper
Upper(text) ==
    [i \in 1..Len(text) |->
        IF text[i] \in DOMAIN UpperOf THEN UpperOf[text[i]] ELSE text[i]]

\* str.strip
RECURSIVE LStrip(_)
LStrip(text) ==
    IF text # <<>> /\ Head(text) = " " THEN LStrip(Tail(text)) ELSE text

RECURSIVE RStrip(_)
RStrip(text) ==
    IF text # <<>> /\ text[Len(text)] = " "
    THEN RStrip(SubSeq(text, 1, Len(text) - 1)) ELSE text

Strip(text) == RStrip(LStrip(text))

\* value of a string of decimal digits
RECURSIVE DigitsValue(_)
DigitsValue(text) ==
    IF text = <<>> THEN 0
    ELSE 10 * DigitsValue(SubSeq(text, 1, Len(text) - 1))
         + Digits[text[Len(text)]]

\* int(text): blanks around, an optional sign, at least one digit
\* (underscores between digits are not modelled)
ParseInt(text) ==
    LET t == Strip(text)
        signed == t # <<>> /\ Head(t) \in {"+", "-"}
        body == IF signed THEN Tail(t) ELSE t
    IN  IF body = <<>> \/ \E i \in 1..Len(body) : body[i] \notin DOMAIN Digits
        THEN [ok |-> FALSE, val |-> 0]
        ELSE [ok |-> TRUE,
              val |-> IF signed /\ Head(t) = "-" THEN 0 - DigitsValue(body)
                      ELSE DigitsValue(body)]

\* data_processor.py:38-61
_resolution_to_expected_points(resolution) ==
    LET res == Upper(Strip(resolution)) IN
    IF ~(Len(res) >= 2 /\ SubSeq(res, 1, 2) = <<"P", "T">>)
       \/ ~(res[Len(res)] = "M")
    THEN [ok |-> FALSE, val |-> 0]
    ELSE LET minutes == ParseInt(SubSeq(res, 3, Len(res) - 1)) IN
         IF ~minutes.ok THEN [ok |-> FALSE, val |-> 0]
         ELSE IF minutes.val <= 0 THEN [ok |-> FALSE, val |-> 0]
         ELSE [ok |-> TRUE, val |-> 1440 \div minutes.val]

-----------------------------------------------------------------------------
(* parse_da_xml_to_raw_csv_bytes *)

\* a Point element: kind "ok" (position and price.amount are numbers),
\* "incomplete" (one of them missing or blank), "nonnumeric"
PointOk(pos, price) == [kind |-> "ok", pos |-> pos, price |-> price]
PointIncomplete == [kind |-> "incomplete", pos |-> 0, price |-> 0]
PointNonNumeric == [kind |-> "nonnumeric", pos |-> 0, price |-> 0]

\* data_processor.py:169-183  the loop over the Point elements
RECURSIVE RawPoints(_)
RawPoints(pts) ==
    IF pts = <<>> THEN [ok |-> TRUE, points |-> <<>>]
    ELSE LET pt == Head(pts)
             rest == RawPoints(Tail(pts))
         IN  IF pt.kind = "incomplete" THEN rest
             ELSE IF pt.kind = "nonnumeric" THEN [ok |-> FALSE, points |-> <<>>]
             ELSE IF ~rest.ok THEN rest
             ELSE [ok |-> TRUE, points |-> << <<pt.pos, pt.price>> >> \o rest.points]

\* data_processor.py:139  the classificationSequence filter: any marker skips
ClsSkips(series) == series.cls # None

\* variant: no date counts as produced
DaySeenNever(day, seen) == FALSE

\* data_processor.py:148
DaySeen(day, seen) == day \in seen

\* data_processor.py:193-200  one row per expanded point
RowsOf(day, expanded) ==
    [i \in 1..Len(expanded) |->
        [date |-> day, mtu |-> Pos(expanded[i]), price |-> Price(expanded[i])]]

\* data_processor.py:133-200  one iteration of the loop over the TimeSeries
Visit(series, seen, rws) ==
    LET same(k) == [kind |-> k, err |-> None, seen |-> seen, rows |-> rws]
        fail(e) == [kind |-> "raise", err |-> e, seen |-> seen, rows |-> rws]
    IN
    IF ClsSkips(series) THEN same("skip")
    ELSE LET delivery_day == get_da_delivery_date_from_timeseries(series) IN
    IF ~delivery_day.ok THEN fail("ValueError: delivery date")
    ELSE IF DaySeen(delivery_day.date, seen) THEN same("skip")
    ELSE LET marked == seen \cup {delivery_day.date}
             skip == [kind |-> "skip", err |-> None, seen |-> marked, rows |-> rws]
             failm(e) == [kind |-> "raise", err |-> e, seen |-> marked, rows |-> rws]
         IN
    IF series.period # "child" THEN skip
    ELSE IF Strip(series.res) = <<>> THEN failm("ValueError: resolution missing")
    ELSE LET expected_points == _resolution_to_expected_points(series.res) IN
    IF ~expected_points.ok THEN failm("ValueError: resolution")
    ELSE LET raw_points == RawPoints(series.points) IN
    IF ~raw_points.ok THEN failm("ValueError: number")
    ELSE IF raw_points.points = <<>> THEN skip
    ELSE LET expanded == _expand_points_with_fill(raw_points.points,
                                                  expected_points.val) IN
    IF ~expanded.ok THEN failm(expanded.err)
    ELSE [kind |-> "emit", err |-> None, seen |-> marked,
          rows |-> rws \o RowsOf(delivery_day.date, expanded.points)]

\* df.sort_values(by = [Date, MTU]) on rows
RowBefore(a, b) == a.date < b.date \/ (a.date = b.date /\ a.mtu < b.mtu)

RECURSIVE InsertRow(_, _)
InsertRow(sorted, x) ==
    IF sorted = <<>> THEN <<x>>
    ELSE IF RowBefore(x, Head(sorted)) THEN <<x>> \o sorted
    ELSE <<Head(sorted)>> \o InsertRow(Tail(sorted), x)

RECURSIVE SortRows(_)
SortRows(rws) ==
    IF rws = <<>> THEN <<>>
    ELSE InsertRow(SortRows(SubSeq(rws, 1, Len(rws) - 1)), rws[Len(rws)])

\* the documents' TimeSeries; a missing resolution element reads as no text
NoText == <<>>
R60   == <<"P", "T", "6", "0", "M">>
R720  == <<" ", "p", "t", "7", "2", "0", "m">>
RDay  == <<"P", "1", "D">>

NormPointLists ==
    { <<>>,
      <<PointOk(1, 10)>>,
      <<PointOk(1, 10), PointIncomplete, PointOk(3, 20)>>,
      <<PointOk(2, 10), PointOk(3, 20)>> }

NormBodies ==
    [res : {R60, R720, RDay}, points : NormPointLists]

NormStarts == {StartUtc(0, 22), StartUtc(0, 23), StartGarbage}

MkSeries(c, st, per, b) ==
    [cls |-> c, start |-> st, period |-> per, res |-> b.res, points |-> b.points]

NormSeries ==
    {MkSeries(c, st, "child", b) :
        c \in {None, "1", "2"}, st \in NormStarts, b \in NormBodies}
    \cup {MkSeries(None, st, "nested", [res |-> R60, points |-> <<PointOk(1, 10)>>]) :
            st \in {StartUtc(0, 22), StartUtc(0, 23)}}
    \cup {MkSeries(None, StartNone, "none", [res |-> R60, points |-> <<PointOk(1, 10)>>]),
          MkSeries(None, StartUtc(0, 22), "child",
                   [res |-> NoText, points |-> <<PointOk(1, 10)>>]),
          MkSeries(None, StartUtc(0, 23), "child",
                   [res |-> R60, points |-> <<PointNonNumeric>>])}

NoNormSeries == MkSeries(None, StartNone, "none", [res |-> NoText, points |-> <<>>])

NormDates == {0, 1}

\* data_processor.py:133-200  visit the next TimeSeries of the document.
\* The TimeSeries are drawn when the loop reaches them.
NormVisit ==
    /\ n_pc = "loop"
    /\ n_left > 0
    /\ \E s \in NormSeries :
          LET v == Visit(s, seen_delivery_days, rows)
              d == get_da_delivery_date_from_timeseries(s)
          IN
          /\ n_ts' = s
          /\ n_left' = n_left - 1
          /\ seen_delivery_days' = v.seen
          /\ rows' = v.rows
          /\ n_error' = v.err
          /\ n_pc' = IF v.kind = "raise" THEN "failed" ELSE "loop"
          /\ first_for' =
                IF s.cls = None /\ d.ok /\ first_for[d.date] = NoNormSeries
                THEN [first_for EXCEPT ![d.date] = s]
                ELSE first_for
    /\ UNCHANGED csv
    /\ UNCHANGED nonNormVars

\* data_processor.py:202-211  after the loop
NormFinish ==
    /\ n_pc = "loop"
    /\ n_left = 0
    /\ IF rows = <<>>
       THEN /\ n_pc' = "failed"
            /\ n_error' = "ValueError: no rows"
            /\ UNCHANGED csv
       ELSE /\ n_pc' = "done"
            /\ csv' = SortRows(rows)
            /\ UNCHANGED n_error
    /\ UNCHANGED <<n_left, n_ts, seen_delivery_days, rows, first_for>>
    /\ UNCHANGED nonNormVars

-----------------------------------------------------------------------------
(* a direct call _resolution_to_expected_points(r_text) *)

ResHeads == {<<"P", "T">>, <<"p", "t">>, <<" ", "P", "T">>, <<"P">>, <<>>}
ResMids  == {<<>>, <<"0">>, <<"7">>, <<"1", "5">>, <<"6", "0">>,
             <<"7", "2", "0">>, <<"1", "4", "4", "0">>, <<"2", "0", "0", "0">>,
             <<"-", "5">>, <<"+", "6", "0">>, <<" ", "6", "0">>, <<"6", "x">>}
ResTails == {<<"M">>, <<"m">>, <<"M", " ">>, <<"H">>, <<>>}

ResTexts == {h \o m \o t : h \in ResHeads, m \in ResMids, t \in ResTails}

ResCall ==
    /\ r_pc = "ready"
    /\ r_out' = _resolution_to_expected_points(r_text)
    /\ r_pc' = IF r_out'.ok THEN "returned" ELSE "raised"
    /\ UNCHANGED r_text
    /\ UNCHANGED nonResVars

-----------------------------------------------------------------------------
(* convert_raw_mtu_csv_to_hourly_csv_bytes.  A mean is kept as the exact    *)
(* fraction num / den.                                                      *)

\* data_processor.py:237
allowed_counts == {1440 \div m : m \in DA_SUPPORTED_RESOLUTION_MINUTES}

\* variant: the hour of a unit is taken without the shift by one
HourOfUnshifted(n_points, mtu) ==
    IF n_points = 24 THEN mtu
    ELSE IF n_points = 48 THEN mtu \div 2 + 1
    ELSE mtu \div 4 + 1

\* data_processor.py:262, 267, 276  the Hour column
HourOf(n_points, mtu) ==
    IF n_points = 24 THEN mtu
    ELSE IF n_points = 48 THEN (mtu - 1) \div 2 + 1
    ELSE (mtu - 1) \div 4 + 1

RECURSIVE SumPrice(_)
SumPrice(rws) ==
    IF rws = <<>> THEN 0 ELSE Head(rws).price + SumPrice(Tail(rws))

\* the elements of a finite set of integers in increasing order
RECURSIVE Ascending(_)
Ascending(S) ==
    IF S = {} THEN <<>>
    ELSE LET least == CHOOSE x \in S : \A y \in S : x <= y
         IN  <<least>> \o Ascending(S \ {least})

\* groupby("Hour", as_index=False)[price].mean()
GroupMean(date_value, df_day, n_points) ==
    LET hours == Ascending({HourOf(n_points, df_day[i].mtu) : i \in 1..Len(df_day)})
    IN  [k \in 1..Len(hours) |->
            LET g == SelectSeq(df_day,
                               LAMBDA r : HourOf(n_points, r.mtu) = hours[k])
            IN  [date |-> date_value, hour |-> hours[k],
                 num |-> SumPrice(g), den |-> Len(g)]]

\* data_processor.py:260-264  60-minute days: the rows themselves
Direct(date_value, df_day, n_points) ==
    [i \in 1..Len(df_day) |->
        [date |-> date_value, hour |-> HourOf(n_points, df_day[i].mtu),
         num |-> df_day[i].price, den |-> 1]]

\* hourly.sort_values(by="Hour")
RECURSIVE InsertByHour(_, _)
InsertByHour(sorted, x) ==
    IF sorted = <<>> THEN <<x>>
    ELSE IF x.hour < Head(sorted).hour THEN <<x>> \o sorted
    ELSE <<Head(sorted)>> \o InsertByHour(Tail(sorted), x)

RECURSIVE SortByHour(_)
SortByHour(hs) ==
    IF hs = <<>> THEN <<>>
    ELSE InsertByHour(SortByHour(SubSeq(hs, 1, Len(hs) - 1)), hs[Len(hs)])

\* data_processor.py:259-287  the hourly rows of one supported day
HourlyOfDay(date_value, df_day) ==
    LET n_points == Len(df_day) IN
    SortByHour(IF n_points = 24 THEN Direct(date_value, df_day, n_points)
               ELSE GroupMean(date_value, df_day, n_points))

\* raw tables given to the converter
PricePattern(k, i) ==
    IF k = "flat" THEN 10
    ELSE IF k = "ramp" THEN i
    ELSE IF i % 2 = 1 THEN 10 ELSE 20

DayCounts == {2, 24, 25, 48, 96}

DayShape(n, k) == [i \in 1..n |-> [mtu |-> i, price |-> PricePattern(k, i)]]

\* a day whose units are not 1..N
Shifted == [i \in 1..48 |-> [mtu |-> i + 1, price |-> i]]

DayShapes ==
    {<<>>, Shifted} \cup {DayShape(n, k) : n \in DayCounts, k \in {"flat", "ramp", "alt"}}

OtherDayShapes ==
    {<<>>, DayShape(2, "flat"), DayShape(24, "flat"), DayShape(48, "alt")}

RawOf(d, shape) ==
    [i \in 1..Len(shape) |->
        [date |-> d, mtu |-> shape[i].mtu, price |-> shape[i].price]]

RawTables ==
    {RawOf(0, a) \o RawOf(1, b) : a \in DayShapes, b \in OtherDayShapes}
    \cup {RawOf(1, b) \o RawOf(0, a) : a \in DayShapes, b \in OtherDayShapes}

\* data_processor.py:239-240  df.sort_values(by = [Date, MTU]): each row goes
\* to the place given by the number of rows before it
SortValues(rws) ==
    LET n == Len(rws)
        before(j, i) == \/ RowBefore(rws[j], rws[i])
                        \/ (~RowBefore(rws[i], rws[j]) /\ j < i)
        place == [i \in 1..n |-> Cardinality({j \in 1..n : before(j, i)}) + 1]
    IN  [k \in 1..n |-> rws[CHOOSE i \in 1..n : place[i] = k]]

HourlyRead ==
    /\ h_pc = "ready"
    /\ h_df' = SortValues(h_raw)
    /\ h_dates' = Ascending({h_raw[i].date : i \in 1..Len(h_raw)})
    /\ h_pc' = "loop"
    /\ UNCHANGED <<h_raw, all_hourly_rows, h_error>>
    /\ UNCHANGED nonHourlyVars

\* data_processor.py:245-287  one group of df.groupby("Date")
HourlyDay ==
    /\ h_pc = "loop"
    /\ h_dates # <<>>
    /\ LET date_value == Head(h_dates)
           df_day == SelectSeq(h_df, LAMBDA r : r.date = date_value)
       IN  IF Len(df_day) \notin allowed_counts
           THEN IF DA_SKIP_UNSUPPORTED_MTU_DAYS
                THEN /\ h_pc' = "loop"
                     /\ UNCHANGED <<all_hourly_rows, h_error>>
                ELSE /\ h_pc' = "failed"
                     /\ h_error' = "ValueError: count"
                     /\ UNCHANGED all_hourly_rows
           ELSE /\ all_hourly_rows' =
                      all_hourly_rows \o HourlyOfDay(date_value, df_day)
                /\ h_pc' = "loop"
                /\ UNCHANGED h_error
    /\ h_dates' = Tail(h_dates)
    /\ UNCHANGED <<h_raw, h_df>>
    /\ UNCHANGED nonHourlyVars

\* data_processor.py:289-298  after the loop
HourlyFinish ==
    /\ h_pc = "loop"
    /\ h_dates = <<>>
    /\ IF all_hourly_rows = <<>>
       THEN h_pc' = "failed" /\ h_error' = "ValueError: no rows"
       ELSE h_pc' = "done" /\ UNCHANGED h_error
    /\ UNCHANGED <<h_raw, h_df, h_dates, all_hourly_rows>>
    /\ UNCHANGED nonHourlyVars

-----------------------------------------------------------------------------
(* Specification of one fetch call *)

StartDates == {1, 2}
EndDates   == {1} \cup {b * MAX_DAYS_PER_REQUEST_DA + j :
                              b \in 1..MaxSpanBlocks, j \in {0, 1}}
Countries  == {"PT", "FR", "IT-Sicily", "DE"}
Tokens     == {"", "tok"}

ExpandIdle ==
    /\ e_pc = "idle" /\ e_points = <<>> /\ e_expected = 0 /\ e_out = NoOut

NormIdle ==
    /\ n_pc = "idle" /\ n_left = 0 /\ n_ts = NoNormSeries
    /\ seen_delivery_days = {} /\ rows = <<>> /\ csv = <<>> /\ n_error = None
    /\ first_for = [d \in NormDates |-> NoNormSeries]

HourlyIdle ==
    /\ h_pc = "idle" /\ h_raw = <<>> /\ h_df = <<>> /\ h_dates = <<>>
    /\ all_hourly_rows = <<>> /\ h_error = None

ResIdle ==
    /\ r_pc = "idle" /\ r_text = <<>> /\ r_out = [ok |-> FALSE, val |-> 0]

FetchIdle ==
    /\ start_date = 0 /\ end_date = 0 /\ country_code = None /\ token = None
    /\ pc = "direct"
    /\ current_start = 0 /\ current_end = 0 /\ offset = 0 /\ page = 0
    /\ seen_mrids = {} /\ root = <<>> /\ calls = 0 /\ error = None
    /\ ts_left = 0 /\ cur_ts = NoSeries /\ new_ts_found = FALSE /\ seg_keys = {}

GetIdle ==
    /\ g_pc = "idle" /\ max_retries = 0 /\ attempt = 0 /\ tried = 0
    /\ slept = 0 /\ resp = NoResp /\ g_exc = None

Init ==
    /\ start_date \in StartDates
    /\ end_date \in EndDates
    /\ country_code \in Countries
    /\ token \in Tokens
    /\ pc = "start"
    /\ current_start = 0 /\ current_end = 0 /\ offset = 0 /\ page = 0
    /\ seen_mrids = {} /\ root = <<>> /\ calls = 0 /\ error = None
    /\ ts_left = 0 /\ cur_ts = NoSeries /\ new_ts_found = FALSE /\ seg_keys = {}
    /\ GetIdle
    /\ ExpandIdle
    /\ NormIdle
    /\ HourlyIdle
    /\ ResIdle

Next ==
    \/ FetchBegin
    \/ FetchCall
    \/ FetchMerge
    \/ FetchFilter

Spec == Init /\ [][Next]_vars

-----------------------------------------------------------------------------
(* Specification of one direct safe_get call *)

InitGet ==
    /\ FetchIdle
    /\ GetIdle
    /\ ExpandIdle
    /\ NormIdle
    /\ HourlyIdle
    /\ ResIdle

NextGet ==
    \/ SafeGetCall
    \/ SafeGetOk
    \/ SafeGetFail
    \/ SafeGetSleep

SpecGet == InitGet /\ [][NextGet]_vars

-----------------------------------------------------------------------------
(* Specification of one direct _expand_points_with_fill call *)

Prices == {10, 20}
PointLists == SeqsUpTo((0..MaxPos) \X Prices, MaxPoints)

InitExpand ==
    /\ FetchIdle
    /\ GetIdle
    /\ e_pc = "ready"
    /\ e_points \in PointLists
    /\ e_expected \in 0..MaxExpected
    /\ e_out = NoOut
    /\ NormIdle
    /\ HourlyIdle
    /\ ResIdle

NextExpand == ExpandCall

SpecExpand == InitExpand /\ [][NextExpand]_vars

-----------------------------------------------------------------------------
(* Specification of one parse_da_xml_to_raw_csv_bytes call *)

InitNorm ==
    /\ FetchIdle
    /\ GetIdle
    /\ ExpandIdle
    /\ n_pc = "loop"
    /\ n_left \in 0..MaxDocLen
    /\ n_ts = NoNormSeries
    /\ seen_delivery_days = {} /\ rows = <<>> /\ csv = <<>> /\ n_error = None
    /\ first_for = [d \in NormDates |-> NoNormSeries]
    /\ HourlyIdle
    /\ ResIdle

NextNorm ==
    \/ NormVisit
    \/ NormFinish

SpecNorm == InitNorm /\ [][NextNorm]_vars

-----------------------------------------------------------------------------
(* Specification of one convert_raw_mtu_csv_to_hourly_csv_bytes call *)

InitHourly ==
    /\ FetchIdle
    /\ GetIdle
    /\ ExpandIdle
    /\ NormIdle
    /\ ResIdle
    /\ h_pc = "ready"
    /\ h_raw \in RawTables
    /\ h_df = <<>> /\ h_dates = <<>> /\ all_hourly_rows = <<>> /\ h_error = None

NextHourly ==
    \/ HourlyRead
    \/ HourlyDay
    \/ HourlyFinish

SpecHourly == InitHourly /\ [][NextHourly]_vars

-----------------------------------------------------------------------------
(* Specification of one direct _resolution_to_expected_points call *)

InitRes ==
    /\ FetchIdle
    /\ GetIdle
    /\ ExpandIdle
    /\ NormIdle
    /\ HourlyIdle
    /\ r_pc = "ready"
    /\ r_text \in ResTexts
    /\ r_out = [ok |-> FALSE, val |-> 0]

NextRes == ResCall

SpecRes == InitRes /\ [][NextRes]_vars

-----------------------------------------------------------------------------
(* Properties of the fetch (Spec) *)

InvalidRequestErrors ==
    {"ValueError: start_date", "ValueError: country_code", "ValueError: token"}

RootSeries == {root[i] : i \in 1..Len(root)}

\* C1: every series of the document returned by fetch_da_price_xml_bytes has
\* a computable delivery date, and that date lies in [start_date, end_date].
C1_ReturnedSeriesInWindow ==
    pc = "done" =>
        \A ts \in RootSeries :
            LET d == get_delivery_date_from_timeseries(ts, country_code) IN
            d.ok /\ start_date <= d.date /\ d.date <= end_date

\* C2: the filter's resolver and the normalizer's resolver give the same
\* delivery date: a series the filter kept for date d is emitted under date d.
C2_SameDeliveryDate ==
    pc = "done" =>
        \A ts \in RootSeries :
            LET f == get_delivery_date_from_timeseries(ts, country_code)
                n == get_da_delivery_date_from_timeseries(ts)
            IN  f.ok => (n.ok /\ n.date = f.date)

\* C3: a received series is appended to the document exactly when its
\* (mRID, period start) pair was not seen earlier in the current segment.
C3_DedupPerSegmentByKey ==
    [][(pc = "merge" /\ cur_ts'.mrid # None)
          => IF <<cur_ts'.mrid, cur_ts'.start>> \in seg_keys
             THEN root' = root
             ELSE root' = Append(root, cur_ts')]_vars

\* C4: a fetch with start_date > end_date, an unknown country code or an
\* empty token fails with the ValueError of that check, and no HTTP request
\* has been issued.
C4_InvalidRequestBeforeNetwork ==
    (pc # "start" /\ (start_date > end_date
                        \/ country_code \notin ENTSOE_EIC_BY_COUNTRY
                        \/ token = ""))
        => (pc = "failed" /\ error \in InvalidRequestErrors /\ calls = 0
            /\ (error = "ValueError: start_date" <=> start_date > end_date))

C4_Witness ==
    /\ pc = "failed" /\ token = "" /\ start_date <= end_date
    /\ country_code \in ENTSOE_EIC_BY_COUNTRY
    /\ error = "ValueError: token" /\ calls = 0

-----------------------------------------------------------------------------
(* Properties of safe_get (SpecGet) *)

\* C5: a safe_get call with max_retries = n >= 1 makes at most n attempts; a
\* successful attempt returns its response and nothing follows; each failed
\* attempt but the n-th is followed by one sleep and another attempt; after
\* n failed attempts the exception of the last one is raised, no response.
C5_SafeGetRetries ==
    (g_pc # "idle" /\ max_retries >= 1) =>
        /\ tried <= max_retries
        /\ attempt <= max_retries
        /\ g_pc = "try" => (tried = attempt - 1 /\ slept = tried /\ resp = NoResp)
        /\ g_pc = "sleep" => (tried = attempt /\ slept = tried - 1
                              /\ attempt < max_retries /\ resp = NoResp
                              /\ g_exc \in RequestExceptions)
        /\ g_pc = "returned" => (resp \in Bodies /\ tried = attempt
                                 /\ slept = tried - 1 /\ ~ENABLED NextGet)
        /\ g_pc = "raised" => (tried = max_retries /\ slept = max_retries - 1
                               /\ g_exc \in RequestExceptions /\ resp = NoResp
                               /\ ~ENABLED NextGet)

C5_Witness ==
    /\ g_pc = "raised" /\ max_retries = 3 /\ tried = 3 /\ slept = 2
    /\ g_exc = "Timeout"

-----------------------------------------------------------------------------
(* Properties of _expand_points_with_fill (SpecExpand) *)

StrictlyIncreasing(points) ==
    \A i \in 1..(Len(points) - 1) : Pos(points[i]) < Pos(points[i + 1])

Max(a, b) == IF a >= b THEN a ELSE b

\* the price of the supplied point with the greatest position <= p
PriceAt(points, p) ==
    LET below == {i \in 1..Len(points) : Pos(points[i]) <= p}
        i == CHOOSE j \in below : \A k \in below : Pos(points[k]) <= Pos(points[j])
    IN  Price(points[i])

MinPos(points) ==
    CHOOSE m \in {Pos(points[i]) : i \in 1..Len(points)} :
        \A i \in 1..Len(points) : m <= Pos(points[i])

\* C6: for points that start at position 1 and strictly increase up to L,
\* the call returns one point for each position 1..max(L, expected_points),
\* in order, each with the price of the supplied point with the greatest
\* position not above it.
C6_ExpandForwardFill ==
    (e_pc \notin {"idle", "ready"} /\ e_points # <<>> /\ Pos(e_points[1]) = 1
        /\ StrictlyIncreasing(e_points))
    => LET L == Pos(e_points[Len(e_points)])
           N == Max(L, e_expected)
       IN  /\ e_pc = "returned"
           /\ Len(e_out.points) = N
           /\ \A p \in 1..N : e_out.points[p] = <<p, PriceAt(e_points, p)>>

C6_Witness ==
    /\ e_pc = "returned"
    /\ e_points = << <<1, 10>>, <<4, 20>> >>
    /\ e_expected = 6
    /\ e_out.points = << <<1, 10>>, <<2, 10>>, <<3, 10>>, <<4, 20>>,
                         <<5, 20>>, <<6, 20>> >>

\* C7 as stated: a non-empty list whose first supplied position is not 1
\* makes the call fail, with no expanded points.
C7_FirstSuppliedNotOneFails ==
    (e_pc \notin {"idle", "ready"} /\ e_points # <<>> /\ Pos(e_points[1]) # 1)
    => (e_pc = "raised" /\ ~e_out.ok /\ e_out.points = <<>>)

\* C7 amended: a non-empty list whose smallest position is not 1 makes the
\* call fail with the first-position ValueError, with no expanded points.
C7_SmallestNotOneFails ==
    (e_pc \notin {"idle", "ready"} /\ e_points # <<>> /\ MinPos(e_points) # 1)
    => (e_pc = "raised" /\ ~e_out.ok /\ e_out.points = <<>>
        /\ e_out.err = "ValueError: first position")

C7_Witness ==
    /\ e_pc = "raised"
    /\ e_points = << <<3, 20>>, <<2, 10>> >>
    /\ e_out.err = "ValueError: first position"

-----------------------------------------------------------------------------
(* Properties of parse_da_xml_to_raw_csv_bytes (SpecNorm) *)

RowsFor(rws, d) == SelectSeq(rws, LAMBDA r : r.date = d)

\* the rows a TimeSeries yields when it is the only one visited
RowsAlone(series) ==
    IF series = NoNormSeries THEN <<>> ELSE Visit(series, {}, <<>>).rows

AllowedCounts == {24, 48, 96}

\* C8: under keep-primary-only a series whose classification marker is
\* absent or "1" is retained (with a computable delivery date, that date
\* counts as produced after the visit); a series with another marker adds
\* no row and marks no date.
C8_PrimaryMarkerRetained ==
    [][(n_pc = "loop" /\ n_left > 0)
          => LET d == get_da_delivery_date_from_timeseries(n_ts') IN
             /\ (n_ts'.cls \notin {None, "1"})
                    => (rows' = rows /\ seen_delivery_days' = seen_delivery_days)
             /\ (n_ts'.cls \in {None, "1"} /\ d.ok)
                    => d.date \in seen_delivery_days']_vars

\* C9: for every delivery date d the rows with date d are exactly the rows
\* of one series, the first series in document order that passed the
\* classification filter with date d; later series with date d add nothing.
C9_FirstSeenWins ==
    \A d \in NormDates :
        /\ RowsFor(rows, d) = RowsAlone(first_for[d])
        /\ n_pc = "done" => RowsFor(csv, d) = RowsAlone(first_for[d])

C9_Witness ==
    /\ n_pc = "done"
    /\ first_for[0].res = R60 /\ first_for[0].points = <<PointOk(1, 10)>>
    /\ n_ts.cls = None /\ n_ts.start = first_for[0].start
    /\ n_ts.period = "child" /\ n_ts.res = R720
    /\ n_ts.points = <<PointOk(1, 10), PointIncomplete, PointOk(3, 20)>>
    /\ Len(RowsFor(csv, 0)) = 24

C13_SegmentsPartitionRange ==
    [][/\ (pc' \in {"call", "merge"}) =>
            /\ start_date' <= current_start' /\ current_start' <= current_end'
            /\ current_end' <= end_date'
            /\ current_end' - current_start' + 1 <= MAX_DAYS_PER_REQUEST_DA
       /\ (pc = "start" /\ pc' = "call") => current_start' = start_date
       /\ (pc \in {"call", "merge"} /\ pc' \in {"call", "merge"})
              => \/ (current_start' = current_start /\ current_end' = current_end)
                 \/ current_start' = current_end + 1
       /\ (pc \in {"call", "merge"} /\ pc' = "filter") => current_end = end_date
      ]_vars

C13_Witness ==
    /\ pc = "done"
    /\ start_date = 1 /\ end_date = MAX_DAYS_PER_REQUEST_DA + 1
    /\ current_end = end_date
    /\ calls >= 2

\* the page just merged added a TimeSeries to the document
PageContributed == new_ts_found' /\ Len(root') > 0

\* C14: in a segment the pages are requested at offsets 0, 100, 200, ...
\* (each segment restarts at 0); another page is requested only after a page
\* that added a new series; the segment is left at the first page with no
\* series or no new series, and only then is the next segment requested.
C14_PaginationOrder ==
    [][/\ (pc' = "call") => offset' = 100 * (page' - 1)
       /\ (pc' = "call" /\ (pc = "start" \/ current_start' # current_start))
              => (offset' = 0 /\ page' = 1)
       /\ (pc = "merge" /\ ts_left = 1) =>
              IF PageContributed
              THEN /\ pc' = "call" /\ current_start' = current_start
                   /\ offset' = offset + 100 /\ page' = page + 1
              ELSE current_start' = current_end + 1
       /\ (pc = "merge" /\ ts_left > 1) =>
              (pc' = "merge" /\ current_start' = current_start /\ offset' = offset)
       /\ (pc = "call" /\ pc' = "call") => current_start' = current_end + 1
       /\ (pc = "call" /\ pc' = "merge") => (ts_left' > 0 /\ ~new_ts_found')
       /\ (new_ts_found' /\ ~new_ts_found) => Len(root') = Len(root) + 1
      ]_vars

C14_Witness ==
    /\ pc = "call"
    /\ offset = 200 /\ page = 3
    /\ current_start = MAX_DAYS_PER_REQUEST_DA + 1
    /\ calls >= 1

\* C12: a per-series anomaly (no computable delivery date, malformed points
\* or resolution) only skips that series: the visit of a series never ends
\* the call, and the rows produced so far are kept.
C12_AnomalySkipsOnlySeries ==
    [][(n_pc = "loop" /\ n_left > 0)
          => (n_pc' = "loop" /\ n_error' = None
              /\ SubSeq(rows', 1, Len(rows)) = rows)]_vars

-----------------------------------------------------------------------------
(* Properties of convert_raw_mtu_csv_to_hourly_csv_bytes (SpecHourly) *)

RawDay(d) == SelectSeq(h_raw, LAMBDA r : r.date = d)

HourlyRowsOf(d) == SelectSeq(all_hourly_rows, LAMBDA r : r.date = d)

\* the date's group has been visited by the loop
Visited(d) ==
    /\ h_pc \in {"loop", "done", "failed"}
    /\ RawDay(d) # <<>>
    /\ \A i \in 1..Len(h_dates) : h_dates[i] # d

\* the raw rows of the date are the units 1..N, each once
UnitsOneTo(d, N) ==
    /\ Len(RawDay(d)) = N
    /\ {RawDay(d)[i].mtu : i \in 1..N} = 1..N

\* sum of the prices of the units lo..hi of the date
UnitSum(d, lo, hi) ==
    SumPrice(SelectSeq(RawDay(d), LAMBDA r : r.mtu >= lo /\ r.mtu <= hi))

\* C11: a date whose raw rows are the units 1..N, N in {24, 48, 96}, gets
\* exactly one hourly row for each hour 1..24, in that order, and no other;
\* its value is the unit's value (N = 24) or the mean of the 2 (N = 48) or
\* 4 (N = 96) units of the hour; a day of one value v gives 24 times v.
C11_HourlyAggregation ==
    \A d \in {0, 1} : \A N \in {24, 48, 96} :
        (Visited(d) /\ UnitsOneTo(d, N)) =>
            LET hs == HourlyRowsOf(d)
                k == N \div 24
            IN  /\ Len(hs) = 24
                /\ \A h \in 1..24 :
                      /\ hs[h].hour = h
                      /\ hs[h].num * k = UnitSum(d, k * (h - 1) + 1, k * h) * hs[h].den
                      /\ \A v \in {10, 20} :
                            (\A i \in 1..N : RawDay(d)[i].price = v)
                                => hs[h].num = v * hs[h].den

C11_Witness ==
    /\ h_pc = "done"
    /\ RawDay(0) = RawOf(0, DayShape(96, "ramp"))
    /\ RawDay(1) = RawOf(1, DayShape(48, "alt"))
    /\ h_raw[1].date = 1
    /\ Len(all_hourly_rows) = 48
    /\ all_hourly_rows[2].num = 26 /\ all_hourly_rows[2].den = 4

-----------------------------------------------------------------------------
(* Further properties of the fetch (Spec) *)

\* C15: the delivery-window filter removes every series whose delivery date
\* cannot be computed, and the fetch completes.
C15_UncomputableDropped ==
    [][(pc = "filter")
          => /\ pc' = "done"
             /\ \A i \in 1..Len(root') :
                   get_delivery_date_from_timeseries(root'[i], country_code).ok
      ]_vars

\* number of segments of a requested range
NumSegments(sd, ed) ==
    IF sd > ed THEN 0 ELSE (ed - sd) \div MAX_DAYS_PER_REQUEST_DA + 1

\* segments entered so far
SegmentsStarted ==
    IF pc \in {"start"} \/ error \in InvalidRequestErrors THEN 0
    ELSE NumSegments(start_date, Min(current_start, end_date))

PcRank == ("start" :> 3 @@ "call" :> 2 @@ "merge" :> 2 @@ "filter" :> 1
           @@ "done" :> 0 @@ "failed" :> 0 @@ "direct" :> 0)

\* page requests still allowed by the bound, then the series of the page
\* still to merge, then the position of the call
Measure ==
    ((Cardinality(Mrids) + NumSegments(start_date, end_date) - calls)
        * (MaxPageLen + 1) + ts_left) * 4 + PcRank[pc]

\* C18: a fetch terminates: every step of the fetch lowers a measure that is
\* never negative, and the page requests issued so far are at most the
\* identifiers seen plus the segments entered, hence at most the number of
\* distinct identifiers plus the number of segments.
C18_BoundedRequests ==
    [][/\ Measure' < Measure
       /\ Measure' >= 0
       /\ calls' <= Cardinality(seen_mrids') + SegmentsStarted'
       /\ calls' <= Cardinality(Mrids) + NumSegments(start_date, end_date)
      ]_vars

C18_Witness ==
    /\ pc = "done"
    /\ start_date = 1 /\ end_date = MAX_DAYS_PER_REQUEST_DA + 1
    /\ seen_mrids = Mrids
    /\ calls = Cardinality(Mrids) + NumSegments(start_date, end_date)

\* C20: while the document is accumulated it holds exactly one series for
\* each identifier of the seen set and none for any other identifier; a
\* received series without identifier is never appended and never counts
\* as new for the page loop.
C20_OneSeriesPerIdentifier ==
    [][/\ (pc' \in {"call", "merge", "filter"}) =>
            /\ {root'[i].mrid : i \in 1..Len(root')} = seen_mrids'
            /\ Len(root') = Cardinality(seen_mrids')
            /\ None \notin seen_mrids'
       /\ (pc' = "done") =>
            \A i, j \in 1..Len(root') : root'[i].mrid = root'[j].mrid => i = j
       /\ (pc = "merge" /\ cur_ts'.mrid = None) =>
            (root' = root /\ seen_mrids' = seen_mrids
             /\ new_ts_found' = new_ts_found)
      ]_vars

C20_Witness ==
    /\ pc = "merge"
    /\ cur_ts.mrid = None
    /\ seen_mrids = Mrids
    /\ Len(root) = 2
    /\ current_start = MAX_DAYS_PER_REQUEST_DA + 1

-----------------------------------------------------------------------------
(* Further properties of _expand_points_with_fill (SpecExpand) *)

\* C16 as stated: a list that, in the order received, has a point whose
\* position is not greater than the position before it makes the call fail,
\* with no expanded points.
C16_NonIncreasingReceivedFails ==
    (/\ e_pc \notin {"idle", "ready"}
     /\ \E i \in 1..(Len(e_points) - 1) : Pos(e_points[i + 1]) <= Pos(e_points[i]))
    => (e_pc = "raised" /\ ~e_out.ok /\ e_out.points = <<>>)

\* C16 amended: a list in which two points have the same position makes the
\* call fail, with no expanded points; a list whose positions are distinct,
\* in any order, and whose smallest position is 1 is expanded.
C16_RepeatedPositionFails ==
    e_pc \notin {"idle", "ready"} =>
        LET repeated == \E i, j \in 1..Len(e_points) :
                            i # j /\ Pos(e_points[i]) = Pos(e_points[j])
        IN  /\ repeated => (e_pc = "raised" /\ ~e_out.ok /\ e_out.points = <<>>)
            /\ (~repeated /\ e_points # <<>> /\ MinPos(e_points) = 1)
                  => (e_pc = "returned" /\ e_out.ok)

C16_Witness ==
    /\ e_pc = "raised"
    /\ e_points = << <<1, 10>>, <<2, 10>>, <<1, 20>> >>
    /\ e_out.err = "ValueError: position"

-----------------------------------------------------------------------------
(* Properties of _resolution_to_expected_points (SpecRes) *)

\* C17: an accepted resolution reads PT{m}M (case and surrounding blanks
\* aside) with a positive integer m that divides 1440, and the returned count
\* times m is 1440, so the count is at least 1.
C17_AcceptedDividesDay ==
    r_pc = "returned" =>
        LET res == Upper(Strip(r_text))
            m == ParseInt(SubSeq(res, 3, Len(res) - 1))
        IN  /\ Len(res) >= 4
            /\ SubSeq(res, 1, 2) = <<"P", "T">> /\ res[Len(res)] = "M"
            /\ m.ok /\ m.val > 0
            /\ 1440 % m.val = 0
            /\ r_out.val * m.val = 1440
            /\ r_out.val >= 1

-----------------------------------------------------------------------------
(* Further properties of parse_da_xml_to_raw_csv_bytes (SpecNorm) *)

\* C19: a delivery date counts as produced only if rows were emitted for
\* it, so a series without Period or without valid Point does not keep a
\* later series of the same date from producing the date's rows.
C19_SeenOnlyIfEmitted ==
    n_pc \in {"loop", "done"} =>
        \A d \in seen_delivery_days : RowsFor(rows, d) # <<>>

=============================================================================
